---- MODULE Spec2Model ----
(***************************************************************************)
(* Browser session manager of the Spider MCP server (browser.ts) and the   *)
(* browser tool handlers of server.ts that drive it.                       *)
(*                                                                         *)
(* The process is single-threaded: every action below is one run of the    *)
(* event loop, from the event that starts it (a tool call, the settling of *)
(* a promise, a timer callback) up to the next `await` that has to wait    *)
(* for I/O.  Session ids (crypto.randomUUID) are modelled by a counter, so *)
(* the insertion order of the Map is the numeric order of the ids.         *)
(***************************************************************************)
EXTENDS Integers, FiniteSets, Sequences, Bags, TLC

\* ---------------------------------------------------------------- bounds
\* UUIDs drawn by openSession during one run
MaxIds == 2
\* openSession calls suspended in `await browser.init()` at the same time
MaxOpening == 2
\* number of clock steps of one run
MaxClock == 3
\* dispatcher operations in flight at the same time
MaxBusy == 1

\* longest response body, in bytes
MaxBytes == 4

\* how far below and above MAX_CONTENT_LENGTH the lengths of the texts go
MaxMargin == 20

\* ------------------------------------------------------ program constants
MAX_SESSIONS == 5
SESSION_TIMEOUT_MS == 5 * 60 * 1000
CLEANUP_INTERVAL_MS == 60000

\* Date.now() is observed at multiples of half the idle timeout.  A step is
\* longer than CLEANUP_INTERVAL_MS, so after every step the interval callback
\* of an armed timer is due.
ClockStep == SESSION_TIMEOUT_MS \div 2

\* an id that no openSession ever returned ("nonexistent" in the tests)
UnknownId == 0

\* the messages of the two errors the manager throws
MaxSessionsError == "Maximum 5 concurrent browser sessions reached"

NotFoundError == "Browser session not found"

VARIABLES
    sessions,      \* the Map: session id -> lastAccess
    cleanupTimer,  \* TRUE iff cleanupTimer holds an interval handle
    intervals,     \* number of intervals set by setInterval and not cleared
    due,           \* the interval of cleanupTimer has elapsed, callback not yet run
    opening,       \* bag of openSession calls awaiting browser.init(); element = table size seen by the capacity check
    teardown,      \* browser.close() calls in flight: session id -> the caller awaiting it
    closed,        \* session ids whose browser.close() has settled
    busy,          \* session ids with a dispatcher operation in flight on their handle
    nextId,        \* next UUID
    idLimit,       \* last UUID this run may draw
    browserOf,     \* session id -> the connection (browser) stored in its Session object
    attached,      \* openSession calls of browser.ts holding a connection, awaiting browser.pages()
    leaked,        \* connections no table entry holds and no call will ever close
    clock,         \* Date.now()
    ret            \* what the last step returned or threw

vars == <<sessions, cleanupTimer, intervals, due, opening, teardown, closed, busy, nextId, idLimit, browserOf, attached, leaked, clock, ret>>

\* ---------------------------------------------------------------- helpers
Size == Cardinality(DOMAIN sessions)

IssuedIds == 1..(nextId - 1)

\* every id a run can draw, and UnknownId
AllIds == 0..(MAX_SESSIONS + MaxIds)

\* ids a caller can pass: every id ever returned, and one that never was
ArgIds == IssuedIds \cup {UnknownId}

Min(S) == CHOOSE x \in S : \A y \in S : x <= y

Remove(f, S) == [x \in (DOMAIN f) \ S |-> f[x]]

\* what a step returned or threw: `val` is the handle or the number returned
\* (0 for none), `td` what the browser.close() the step resumed from did,
\* `req` and `browserType` the engine asked of and reported by openSession,
\* `args`, `mode` and `ms` the arguments of a wait_for, the wait it started and
\* the timeout it passed, `results` the array parseJsonlStream returned for
\* the chunks in `args`,
\* `isError` and `text` what a tool handler makes of it for its caller
ResultOf(op, id, out, val, td) ==
    [op |-> op, id |-> id, out |-> out, val |-> val, td |-> td,
     req |-> "", browserType |-> "", isError |-> FALSE, text |-> <<>>,
     args |-> <<>>, mode |-> "", ms |-> 0, results |-> <<>>]

Result(op, id, out) == ResultOf(op, id, out, 0, "none")

\* an errorResult that is not flagged as an error
errorResultUnflagged(message) == [isError |-> FALSE, text |-> <<"Error: ", message>>]

\* errorResult of server.ts: isError with the text `Error: ${message}`
errorResult(message) == [isError |-> TRUE, text |-> <<"Error: ", message>>]

\* the call threw an Error with this message; the catch of a tool handler
\* turns it into errorResult
Throw(op, id, message) ==
    [Result(op, id, message) EXCEPT !.isError = errorResult(message).isError,
                                    !.text = errorResult(message).text]

\* the `browser` option of openSession: none given, or an engine
NoOption == "undefined"

BrowserOptions == {NoOption, "chrome", "firefox"}

\* browserType of src/browser.ts: options?.browser ?? "chrome"
BrowserTypePuppeteer(option) == IF option = NoOption THEN "chrome" ELSE option

\* browserType of the spider-browser manager: options?.browser ?? "auto"
BrowserType(option) == IF option = NoOption THEN "auto" ELSE option

\* openSession returns { sessionId, browserType }
OpenResult(id, option, type) ==
    [Result("open", id, "ok") EXCEPT !.req = option, !.browserType = type]

\* how the awaited browser.close() ended
TeardownOutcome(ok) == IF ok THEN "resolved" ELSE "threw"

Waiter(kind, now, ids) == [kind |-> kind, now |-> now, ids |-> ids]

\* ------------------------------------------------------------ openSession
\* the capacity check lets a full table through
AtCapacityOffByOne == Size > MAX_SESSIONS

\* the capacity check of openSession
AtCapacity == Size >= MAX_SESSIONS

\* openSession up to `await browser.init()` (puppeteer.connect)
OpenCall ==
    IF AtCapacity
    THEN /\ ret' = Throw("open", UnknownId, MaxSessionsError)
         /\ UNCHANGED <<sessions, cleanupTimer, intervals, due, opening, teardown, closed, busy, nextId, idLimit, browserOf, attached, leaked, clock>>
    ELSE /\ BagCardinality(opening) < MaxOpening
         /\ nextId + BagCardinality(opening) + attached + leaked <= idLimit
         /\ opening' = opening (+) SetToBag({Size})
         /\ ret' = Result("open", UnknownId, "pending")
         /\ UNCHANGED <<sessions, cleanupTimer, intervals, due, teardown, closed, busy, nextId, idLimit, browserOf, attached, leaked, clock>>

\* startCleanup: arms the interval unless one is armed
StartCleanupTimer == TRUE

\* a startCleanup without `if (cleanupTimer) return`
StartCleanupIntervalsUnguarded == intervals + 1

\* startCleanup calls setInterval only when cleanupTimer is null
StartCleanupIntervals == IF cleanupTimer THEN intervals ELSE intervals + 1

\* `if (cleanupTimer) clearInterval(cleanupTimer)`
ClearIntervals == IF cleanupTimer THEN intervals - 1 ELSE intervals

StartCleanupDue == IF cleanupTimer THEN due ELSE FALSE

\* the browser object this call constructed, named after the id it is stored under
NewBrowser == nextId

\* an openSession that stores the session under the lowest id not in the table
OpenConnectedReusesId(seen) ==
    LET id == Min((1..nextId) \ DOMAIN sessions) IN
    /\ BagIn(seen, opening)
    /\ opening' = opening (-) SetToBag({seen})
    /\ sessions' = [x \in (DOMAIN sessions) \cup {id} |->
                        IF x = id THEN clock ELSE sessions[x]]
    /\ browserOf' = [x \in (DOMAIN browserOf) \cup {id} |->
                        IF x = id THEN NewBrowser ELSE browserOf[x]]
    /\ nextId' = nextId + 1
    /\ cleanupTimer' = StartCleanupTimer
    /\ intervals' = StartCleanupIntervals
    /\ due' = StartCleanupDue
    /\ \E option \in BrowserOptions : ret' = OpenResult(id, option, BrowserType(option))
    /\ UNCHANGED <<teardown, closed, busy, idLimit, attached, leaked, clock>>

\* the connection is established: openSession resumes after the await
OpenConnected(seen) ==
    /\ BagIn(seen, opening)
    /\ opening' = opening (-) SetToBag({seen})
    /\ sessions' = [x \in (DOMAIN sessions) \cup {nextId} |->
                        IF x = nextId THEN clock ELSE sessions[x]]
    /\ nextId' = nextId + 1
    /\ cleanupTimer' = StartCleanupTimer
    /\ intervals' = StartCleanupIntervals
    /\ due' = StartCleanupDue
    /\ browserOf' = browserOf @@ (nextId :> NewBrowser)
    /\ \E option \in BrowserOptions : ret' = OpenResult(nextId, option, BrowserType(option))
    /\ UNCHANGED <<teardown, closed, busy, idLimit, attached, leaked, clock>>

\* browser.ts: puppeteer.connect resolved, openSession goes on to
\* `await browser.pages()` holding the connection in a local variable
PuppeteerConnected(seen) ==
    /\ BagIn(seen, opening)
    /\ opening' = opening (-) SetToBag({seen})
    /\ attached' = attached + 1
    /\ ret' = Result("open", UnknownId, "connected")
    /\ UNCHANGED <<sessions, cleanupTimer, intervals, due, teardown, closed, busy, nextId, idLimit, browserOf, leaked, clock>>

\* browser.ts: browser.pages() (and browser.newPage()) resolved: the entry is
\* inserted, the listener registered and the timer armed
PagesResolved ==
    /\ attached > 0
    /\ attached' = attached - 1
    /\ sessions' = [x \in (DOMAIN sessions) \cup {nextId} |->
                        IF x = nextId THEN clock ELSE sessions[x]]
    /\ browserOf' = browserOf @@ (nextId :> NewBrowser)
    /\ nextId' = nextId + 1
    /\ cleanupTimer' = StartCleanupTimer
    /\ intervals' = StartCleanupIntervals
    /\ due' = StartCleanupDue
    /\ \E option \in BrowserOptions :
          ret' = OpenResult(nextId, option, BrowserTypePuppeteer(option))
    /\ UNCHANGED <<opening, teardown, closed, busy, idLimit, leaked, clock>>

\* browser.ts: browser.pages() or browser.newPage() rejects: openSession
\* rejects with it and nothing closes the connection it held
PagesFailed ==
    /\ attached > 0
    /\ attached' = attached - 1
    /\ leaked' = leaked + 1
    /\ ret' = Throw("open", UnknownId, "ProtocolError")
    /\ UNCHANGED <<sessions, cleanupTimer, intervals, due, opening, teardown, closed, busy, nextId, idLimit, browserOf, clock>>

\* an openSession that arms the timer before it learns that connecting failed
OpenFailedTimerArmed(seen) ==
    /\ BagIn(seen, opening)
    /\ opening' = opening (-) SetToBag({seen})
    /\ cleanupTimer' = StartCleanupTimer
    /\ intervals' = StartCleanupIntervals
    /\ due' = StartCleanupDue
    /\ ret' = Throw("open", UnknownId, "ConnectionError")
    /\ UNCHANGED <<sessions, teardown, closed, busy, nextId, idLimit, browserOf, attached, leaked, clock>>

\* browser.init() / puppeteer.connect rejects: openSession rejects with it
OpenFailed(seen) ==
    /\ BagIn(seen, opening)
    /\ opening' = opening (-) SetToBag({seen})
    /\ ret' = Throw("open", UnknownId, "ConnectionError")
    /\ UNCHANGED <<sessions, cleanupTimer, intervals, due, teardown, closed, busy, nextId, idLimit, browserOf, attached, leaked, clock>>

\* ------------------------------------------------------ getPage/getBrowser
Found(id) == id \in DOMAIN sessions

\* a refresh that resets lastAccess to the start of the epoch
TouchEpoch(id) == [sessions EXCEPT ![id] = 0]

\* a refresh that stamps every session of the table
TouchAll(id) == [x \in DOMAIN sessions |-> clock]

\* session.lastAccess = Date.now()
Touch(id) == [sessions EXCEPT ![id] = clock]

\* getPage without the `if (!session) throw`: an absent id yields undefined
GetPageNoThrow(id) ==
    /\ id \in ArgIds
    /\ IF Found(id)
       THEN /\ sessions' = Touch(id)
            /\ ret' = ResultOf("getPage", id, "page", browserOf[id], "none")
       ELSE /\ sessions' = sessions
            /\ ret' = Result("getPage", id, "undefined")
    /\ UNCHANGED <<cleanupTimer, intervals, due, opening, teardown, closed, busy, nextId, idLimit, browserOf, attached, leaked, clock>>

\* getPage: lookup, refresh of lastAccess, the page handle
GetPage(id) ==
    /\ id \in ArgIds
    /\ IF Found(id)
       THEN /\ sessions' = Touch(id)
            /\ ret' = ResultOf("getPage", id, "page", browserOf[id], "none")
       ELSE /\ sessions' = sessions
            /\ ret' = Throw("getPage", id, NotFoundError)
    /\ UNCHANGED <<cleanupTimer, intervals, due, opening, teardown, closed, busy, nextId, idLimit, browserOf, attached, leaked, clock>>

GetBrowser(id) ==
    /\ id \in ArgIds
    /\ IF Found(id)
       THEN /\ sessions' = Touch(id)
            /\ ret' = ResultOf("getBrowser", id, "browser", browserOf[id], "none")
       ELSE /\ sessions' = sessions
            /\ ret' = Throw("getBrowser", id, NotFoundError)
    /\ UNCHANGED <<cleanupTimer, intervals, due, opening, teardown, closed, busy, nextId, idLimit, browserOf, attached, leaked, clock>>

\* getSessionCount that reports the number of sessions ever opened
GetSessionCountIssued ==
    /\ ret' = ResultOf("count", UnknownId, "ok", nextId - 1, "none")
    /\ UNCHANGED <<sessions, cleanupTimer, intervals, due, opening, teardown, closed, busy, nextId, idLimit, browserOf, attached, leaked, clock>>

\* getSessionCount: sessions.size
GetSessionCount ==
    /\ ret' = ResultOf("count", UnknownId, "ok", Size, "none")
    /\ UNCHANGED <<sessions, cleanupTimer, intervals, due, opening, teardown, closed, busy, nextId, idLimit, browserOf, attached, leaked, clock>>

\* a handler that starts its page operation on a handle it already holds and
\* looks the session up only afterwards
ToolCallLateLookup(id) ==
    /\ id \in ArgIds
    /\ id \in IssuedIds
    /\ id \notin busy
    /\ Cardinality(busy) < MaxBusy
    /\ sessions' = sessions
    /\ busy' = busy \cup {id}
    /\ ret' = Result("tool", id, "pending")
    /\ UNCHANGED <<cleanupTimer, intervals, due, opening, teardown, closed, nextId, idLimit, browserOf, attached, leaked, clock>>

\* a browser tool handler of server.ts up to its first await on the handle
ToolCall(id) ==
    /\ id \in ArgIds
    /\ IF Found(id)
       THEN /\ id \notin busy
            /\ Cardinality(busy) < MaxBusy
            /\ sessions' = Touch(id)
            /\ busy' = busy \cup {id}
            /\ ret' = Result("tool", id, "pending")
       ELSE /\ sessions' = sessions
            /\ busy' = busy
            /\ ret' = Throw("tool", id, NotFoundError)
    /\ UNCHANGED <<cleanupTimer, intervals, due, opening, teardown, closed, nextId, idLimit, browserOf, attached, leaked, clock>>

\* An optional argument is <<>> when it is not given and <<v>> when it is v.
\* the selectors, navigation flags and timeouts a caller can pass to wait_for
Selectors == {<<>>, <<"">>, <<".loaded">>}

Navigations == {<<>>, <<FALSE>>, <<TRUE>>}

Timeouts == {<<>>, <<0>>, <<5000>>}

DEFAULT_WAIT_MS == 30000

\* `if (selector)` on an optional string: undefined and "" are falsy
SelectorTruthy(selector) == selector # <<>> /\ selector[1] # ""

\* `if (navigation)` on an optional boolean
NavigationTruthy(navigation) == navigation # <<>> /\ navigation[1]

\* the wait the handler of spider_browser_wait_for starts
WaitMode(selector, navigation) ==
    IF SelectorTruthy(selector) THEN "selector"
    ELSE IF NavigationTruthy(navigation) THEN "navigation"
    ELSE "network_idle"

\* const ms = timeout ?? 30_000
WaitMs(timeout) == IF timeout = <<>> THEN DEFAULT_WAIT_MS ELSE timeout[1]

\* the handler of spider_browser_wait_for up to the await on its wait
WaitFor(id, selector, navigation, timeout) ==
    /\ id \in ArgIds
    /\ IF Found(id)
       THEN /\ id \notin busy
            /\ Cardinality(busy) < MaxBusy
            /\ sessions' = Touch(id)
            /\ busy' = busy \cup {id}
            /\ ret' = [Result("wait_for", id, "pending") EXCEPT
                          !.args = <<selector, navigation, timeout>>,
                          !.mode = WaitMode(selector, navigation),
                          !.ms = WaitMs(timeout)]
       ELSE /\ sessions' = sessions
            /\ busy' = busy
            /\ ret' = Throw("wait_for", id, NotFoundError)
    /\ UNCHANGED <<cleanupTimer, intervals, due, opening, teardown, closed, nextId, idLimit, browserOf, attached, leaked, clock>>

\* the page operation settles and the handler returns its result
ToolDone(id) ==
    /\ id \in busy
    /\ busy' = busy \ {id}
    /\ \/ ret' = Result("tool", id, "ok")
       \/ ret' = Throw("tool", id, "PageError")
    /\ UNCHANGED <<sessions, cleanupTimer, intervals, due, opening, teardown, closed, nextId, idLimit, browserOf, attached, leaked, clock>>

\* ----------------------------------------------------------- closeSession
\* closeSession that deletes the entry only after the teardown
CloseSessionLateDelete(id) ==
    /\ id \in ArgIds
    /\ IF Found(id)
       THEN /\ sessions' = sessions
            /\ teardown' = teardown @@ (id :> Waiter("close", 0, {}))
            /\ ret' = Result("close", id, "pending")
       ELSE /\ sessions' = sessions
            /\ teardown' = teardown
            /\ ret' = Result("close", id, "ok")
    /\ UNCHANGED <<cleanupTimer, intervals, due, opening, closed, busy, nextId, idLimit, browserOf, attached, leaked, clock>>

\* closeSession without `if (!session) return`: session.browser throws
CloseSessionNoGuard(id) ==
    /\ id \in ArgIds
    /\ IF Found(id)
       THEN /\ sessions' = Remove(sessions, {id})
            /\ teardown' = teardown @@ (id :> Waiter("close", 0, {}))
            /\ ret' = Result("close", id, "pending")
       ELSE /\ sessions' = sessions
            /\ teardown' = teardown
            /\ ret' = Result("close", id, "TypeError")
    /\ UNCHANGED <<cleanupTimer, intervals, due, opening, closed, busy, nextId, idLimit, browserOf, attached, leaked, clock>>

\* closeSession up to `await session.browser.close()`
CloseSession(id) ==
    /\ id \in ArgIds
    /\ IF Found(id)
       THEN /\ sessions' = Remove(sessions, {id})
            /\ teardown' = teardown @@ (id :> Waiter("close", 0, {}))
            /\ ret' = Result("close", id, "pending")
       ELSE /\ sessions' = sessions
            /\ teardown' = teardown
            /\ ret' = Result("close", id, "ok")
    /\ UNCHANGED <<cleanupTimer, intervals, due, opening, closed, busy, nextId, idLimit, browserOf, attached, leaked, clock>>

\* closeSession without the try/catch: the teardown error reaches the caller
CloseOutcomeRethrow(ok) == IF ok THEN "ok" ELSE "TeardownError"

\* try { await browser.close() } catch {}: resolved whatever the teardown did
CloseOutcome(ok) == "ok"

\* ------------------------------------------------------------- idle reaper
\* the idle test with >= for >
ExpiredInclusive(now, id) == now - sessions[id] >= SESSION_TIMEOUT_MS

\* the idle test of the interval callback
Expired(now, id) == now - sessions[id] > SESSION_TIMEOUT_MS

\* entries the for-of loop still has to visit after `from` that it will close
Victims(now, from) == {i \in DOMAIN sessions : i > from /\ Expired(now, i)}

\* a scan that leaves the interval running when it ends on an empty table
ScanKeepsTimer(now, from) ==
    IF Victims(now, from) # {}
    THEN LET v == Min(Victims(now, from)) IN
         /\ sessions' = Remove(sessions, {v})
         /\ teardown' = Remove(teardown, {from}) @@ (v :> Waiter("reaper", now, {}))
         /\ ret' = Result("reap", v, "pending")
         /\ UNCHANGED <<cleanupTimer, intervals>>
    ELSE /\ sessions' = sessions
         /\ teardown' = Remove(teardown, {from})
         /\ cleanupTimer' = cleanupTimer
         /\ intervals' = intervals
         /\ ret' = Result("tick", UnknownId, "ok")

\* the loop of the interval callback from the entry after `from`, up to the
\* next `await closeSession(id)` or to the end of the callback
Scan(now, from) ==
    IF Victims(now, from) # {}
    THEN LET v == Min(Victims(now, from)) IN
         /\ sessions' = Remove(sessions, {v})
         /\ teardown' = Remove(teardown, {from}) @@ (v :> Waiter("reaper", now, {}))
         /\ ret' = Result("reap", v, "pending")
         /\ UNCHANGED <<cleanupTimer, intervals>>
    ELSE /\ sessions' = sessions
         /\ teardown' = Remove(teardown, {from})
         /\ cleanupTimer' = IF Size = 0 /\ cleanupTimer THEN FALSE ELSE cleanupTimer
         /\ intervals' = IF Size = 0 THEN ClearIntervals ELSE intervals
         /\ ret' = Result("tick", UnknownId, "ok")

\* the interval callback starts
Tick ==
    /\ cleanupTimer
    /\ due
    /\ Scan(clock, UnknownId)
    /\ due' = FALSE
    /\ UNCHANGED <<opening, closed, busy, nextId, idLimit, browserOf, attached, leaked, clock>>

\* ------------------------------------------------------- closeAllSessions
\* closeAllSessions that empties the table without closing any connection
CloseAllSessionsDropsTable ==
    /\ sessions' = Remove(sessions, DOMAIN sessions)
    /\ teardown' = teardown
    /\ cleanupTimer' = FALSE
    /\ intervals' = ClearIntervals
    /\ due' = FALSE
    /\ ret' = Result("closeAll", UnknownId, "ok")
    /\ UNCHANGED <<opening, closed, busy, nextId, idLimit, browserOf, attached, leaked, clock>>

\* closeAllSessions that leaves the timer alone when it found no session
CloseAllSessionsKeepsTimer ==
    LET ids == DOMAIN sessions IN
    /\ sessions' = Remove(sessions, ids)
    /\ teardown' = teardown @@ [i \in ids |-> Waiter("all", 0, ids)]
    /\ ret' = Result("closeAll", UnknownId, IF ids = {} THEN "ok" ELSE "pending")
    /\ UNCHANGED <<cleanupTimer, intervals, due, opening, closed, busy, nextId, idLimit, browserOf, attached, leaked, clock>>

\* closeAllSessions up to the await on Promise.allSettled; with no session to
\* close it runs to its end
CloseAllSessions ==
    LET ids == DOMAIN sessions IN
    /\ sessions' = Remove(sessions, ids)
    /\ teardown' = teardown @@ [i \in ids |-> Waiter("all", 0, ids)]
    /\ IF ids = {}
       THEN /\ cleanupTimer' = FALSE
            /\ intervals' = ClearIntervals
            /\ due' = FALSE
            /\ ret' = Result("closeAll", UnknownId, "ok")
       ELSE /\ UNCHANGED <<cleanupTimer, intervals, due>>
            /\ ret' = Result("closeAll", UnknownId, "pending")
    /\ UNCHANGED <<opening, closed, busy, nextId, idLimit, browserOf, attached, leaked, clock>>

\* process.exit(0)
Exit(td) == ResultOf("exit", UnknownId, "ok", 0, td)

\* the process has exited: no code runs any more
Exited == ret.op = "exit"

\* a signal handler that starts closeAllSessions and exits without awaiting it
ShutdownNoAwait ==
    LET ids == DOMAIN sessions IN
    /\ sessions' = Remove(sessions, ids)
    /\ teardown' = teardown @@ [i \in ids |-> Waiter("shutdown", 0, ids)]
    /\ UNCHANGED <<cleanupTimer, intervals, due>>
    /\ ret' = Exit("none")
    /\ UNCHANGED <<opening, closed, busy, nextId, idLimit, browserOf, attached, leaked, clock>>

\* SIGINT or SIGTERM: `shutdown` of index.ts up to the await inside its
\* closeAllSessions; with no session to close it runs on to process.exit(0)
Shutdown ==
    LET ids == DOMAIN sessions IN
    /\ sessions' = Remove(sessions, ids)
    /\ teardown' = teardown @@ [i \in ids |-> Waiter("shutdown", 0, ids)]
    /\ IF ids = {}
       THEN /\ cleanupTimer' = FALSE
            /\ intervals' = ClearIntervals
            /\ due' = FALSE
            /\ ret' = Exit("none")
       ELSE /\ UNCHANGED <<cleanupTimer, intervals, due>>
            /\ ret' = Result("shutdown", UnknownId, "pending")
    /\ UNCHANGED <<opening, closed, busy, nextId, idLimit, browserOf, attached, leaked, clock>>

\* Promise.allSettled(ids.map(closeSession)) is settled once every closeSession is
AllSettled(ids, id) == \A j \in ids \ {id} : j \notin DOMAIN teardown

\* ------------------------------------------------- a teardown settles
\* browser.close() of `id` resolves (ok) or rejects; its caller resumes
Settle(id, ok) ==
    /\ id \in DOMAIN teardown
    /\ LET w == teardown[id] IN
       CASE w.kind = "close" ->
              /\ teardown' = Remove(teardown, {id})
              /\ ret' = ResultOf("close", id, CloseOutcome(ok), 0, TeardownOutcome(ok))
              /\ UNCHANGED <<sessions, cleanupTimer, intervals, due>>
         [] w.kind = "reaper" ->
              /\ Scan(w.now, id)
              /\ due' = IF cleanupTimer' THEN due ELSE FALSE
         [] w.kind = "all" ->
              /\ teardown' = Remove(teardown, {id})
              /\ IF AllSettled(w.ids, id)
                 THEN /\ cleanupTimer' = FALSE
                      /\ intervals' = ClearIntervals
                      /\ due' = FALSE
                      /\ ret' = ResultOf("closeAll", UnknownId, "ok", 0, TeardownOutcome(ok))
                 ELSE /\ UNCHANGED <<cleanupTimer, intervals, due>>
                      /\ ret' = Result("close", id, CloseOutcome(ok))
              /\ UNCHANGED <<sessions>>
         [] w.kind = "shutdown" ->
              /\ teardown' = Remove(teardown, {id})
              /\ IF AllSettled(w.ids, id)
                 THEN /\ cleanupTimer' = FALSE
                      /\ intervals' = ClearIntervals
                      /\ due' = FALSE
                      /\ ret' = Exit(TeardownOutcome(ok))
                 ELSE /\ UNCHANGED <<cleanupTimer, intervals, due>>
                      /\ ret' = Result("close", id, CloseOutcome(ok))
              /\ UNCHANGED <<sessions>>
    /\ closed' = closed \cup {id}
    /\ UNCHANGED <<opening, busy, nextId, idLimit, browserOf, attached, leaked, clock>>

\* ------------------------------------------------------------- environment
\* a listener that also stops the reaper when it empties the table
DisconnectedStopsTimer(id) ==
    /\ id \in IssuedIds
    /\ id \notin DOMAIN teardown
    /\ sessions' = Remove(sessions, {id})
    /\ cleanupTimer' = (cleanupTimer /\ DOMAIN sessions \ {id} # {})
    /\ intervals' = IF DOMAIN sessions \ {id} # {} THEN intervals ELSE ClearIntervals
    /\ due' = (due /\ cleanupTimer')
    /\ ret' = Result("disconnected", id, "ok")
    /\ UNCHANGED <<opening, teardown, closed, busy, nextId, idLimit, browserOf, attached, leaked, clock>>

\* the "disconnected" listener of browser.ts: the remote side dropped
Disconnected(id) ==
    /\ id \in IssuedIds
    /\ id \notin DOMAIN teardown
    /\ sessions' = Remove(sessions, {id})
    /\ ret' = Result("disconnected", id, "ok")
    /\ UNCHANGED <<cleanupTimer, intervals, due, opening, teardown, closed, busy, nextId, idLimit, browserOf, attached, leaked, clock>>

\* the remote side dropped a connection of the spider-browser manager, which
\* registers no listener on it: no code of the manager runs
ConnectionLost(id) ==
    /\ id \in IssuedIds
    /\ id \notin DOMAIN teardown
    /\ ret' = Result("lost", id, "ok")
    /\ UNCHANGED <<sessions, cleanupTimer, intervals, due, opening, teardown, closed, busy, nextId, idLimit, browserOf, attached, leaked, clock>>

\* time passes
Advance ==
    /\ clock < MaxClock * ClockStep
    /\ clock' = clock + ClockStep
    /\ due' = (cleanupTimer /\ (due \/ ClockStep >= CLEANUP_INTERVAL_MS))
    /\ ret' = Result("time", UnknownId, "ok")
    /\ UNCHANGED <<sessions, cleanupTimer, intervals, opening, teardown, closed, busy, nextId, idLimit, browserOf, attached, leaked>>

\* -------------------------------------------------------- parseJsonlStream
\* Bytes of a response body: the digit 1, line feed, carriage return, form
\* feed, and the two bytes C3 A9 of the UTF-8 encoding of one character.
Bytes == {"1", "\n", "\r", "\f", "C3", "A9"}

Ascii == {"1", "\n", "\r", "\f"}

ByteSeqs == UNION {[1..n -> Bytes] : n \in 0..MaxBytes}

\* the ways a reader can deliver the bytes `b` as a sequence of chunks
RECURSIVE SplitsOf(_)
SplitsOf(b) ==
    IF b = <<>> THEN {<<>>}
    ELSE UNION {{<<SubSeq(b, 1, k)>> \o r : r \in SplitsOf(SubSeq(b, k + 1, Len(b)))} :
                  k \in 1..Len(b)}

\* TextDecoder("utf-8").decode(bytes, { stream: true }): `pending` is the lead
\* byte of a sequence whose continuation has not arrived yet
RECURSIVE Decode(_, _)
Decode(pending, bytes) ==
    IF bytes = <<>> THEN [pending |-> pending, text |-> <<>>]
    ELSE LET b == Head(bytes)
             emit == IF pending = <<>>
                     THEN IF b \in Ascii THEN <<b>>
                          ELSE IF b = "A9" THEN <<"U+FFFD">> ELSE <<>>
                     ELSE IF b = "A9" THEN <<"U+00E9">>
                          ELSE IF b = "C3" THEN <<"U+FFFD">> ELSE <<"U+FFFD", b>>
             r == Decode(IF b = "C3" THEN <<"C3">> ELSE <<>>, Tail(bytes))
         IN [pending |-> r.pending, text |-> emit \o r.text]

\* the characters String.prototype.trim removes, and those JSON.parse skips
TrimSpace == {"\n", "\r", "\f"}

JsonSpace == {"\n", "\r"}

RECURSIVE StripLeft(_, _)
StripLeft(s, ws) ==
    IF s # <<>> /\ Head(s) \in ws THEN StripLeft(Tail(s), ws) ELSE s

RECURSIVE StripRight(_, _)
StripRight(s, ws) ==
    IF s # <<>> /\ s[Len(s)] \in ws THEN StripRight(SubSeq(s, 1, Len(s) - 1), ws) ELSE s

\* buffer.trim()
Trim(s) == StripRight(StripLeft(s, TrimSpace), TrimSpace)

\* line.replace(/\r$/, "")
ReplaceCR(line) ==
    IF line # <<>> /\ line[Len(line)] = "\r" THEN SubSeq(line, 1, Len(line) - 1) ELSE line

\* `try { results.push(JSON.parse(s)) } catch {}`: what is pushed, <<v>> for
\* the number s denotes between optional white space, <<>> when s is no JSON
JsonParse(s) ==
    LET t == StripRight(StripLeft(s, JsonSpace), JsonSpace) IN
    IF t # <<>> /\ \A i \in 1..Len(t) : t[i] = "1" THEN <<t>> ELSE <<>>

\* buffer.indexOf("\n"), counted from 1; 0 when there is none
IndexOfNewline(buffer) ==
    IF \E i \in 1..Len(buffer) : buffer[i] = "\n"
    THEN Min({i \in 1..Len(buffer) : buffer[i] = "\n"})
    ELSE 0

\* the inner while loop: takes the complete lines off the buffer
RECURSIVE DrainLines(_, _)
DrainLines(buffer, results) ==
    LET newlineIdx == IndexOfNewline(buffer) IN
    IF newlineIdx = 0 THEN [buffer |-> buffer, results |-> results]
    ELSE LET line == ReplaceCR(SubSeq(buffer, 1, newlineIdx - 1))
             rest == SubSeq(buffer, newlineIdx + 1, Len(buffer))
         IN DrainLines(rest, IF line = <<>> THEN results ELSE results \o JsonParse(line))

\* the outer loop over the chunks reader.read() delivers
RECURSIVE ReadAll(_, _, _, _)
ReadAll(pending, buffer, results, chunks) ==
    IF chunks = <<>> THEN [pending |-> pending, buffer |-> buffer, results |-> results]
    ELSE LET d == Decode(pending, Head(chunks))
             l == DrainLines(buffer \o d.text, results)
         IN ReadAll(d.pending, l.buffer, l.results, Tail(chunks))

\* parseJsonlStream: the array returned when the reader reports done
parseJsonlStream(chunks) ==
    LET end == ReadAll(<<>>, <<>>, <<>>, chunks)
        remaining == Trim(end.buffer)
    IN IF remaining # <<>> THEN end.results \o JsonParse(remaining) ELSE end.results

\* a response body is parsed
ParseJsonl ==
    /\ ret.op = "stream"
    /\ ret' = [Result("parseJsonlStream", UnknownId, "ok") EXCEPT
                  !.args = ret.args,
                  !.results = parseJsonlStream(ret.args)]
    /\ UNCHANGED <<sessions, cleanupTimer, intervals, due, opening, teardown, closed, busy, nextId, idLimit, browserOf, attached, leaked, clock>>

\* ------------------------------------------------------------ formatResult
MAX_CONTENT_LENGTH == 200000

\* length of the notice appended to a truncated text
NOTICE_LENGTH == 91

\* A string is written as the sequence of the pieces it is put together from,
\* a piece being the first `to` characters of the string named `of`.
Piece(of, to) == [of |-> of, to |-> to]

Length(str) == IF str = <<>> THEN 0 ELSE str[1].to + (IF Len(str) > 1 THEN str[2].to ELSE 0)

\* str.slice(0, k) of a string of one piece
Slice(str, k) == <<Piece(str[1].of, Min({k, str[1].to}))>>

Notice == <<Piece("notice", NOTICE_LENGTH)>>

\* the values formatResult is given: strings and JSON values, by the length
\* of the string and of the indented serialization of the value
TextLengths == (0..MaxMargin) \cup ((MAX_CONTENT_LENGTH - MaxMargin)..(MAX_CONTENT_LENGTH + MaxMargin))

Data == [type : {"string", "object"}, length : TextLengths]

\* typeof data === "string" ? data : JSON.stringify(data, null, 2)
TextOfData(data) ==
    <<Piece(IF data.type = "string" THEN "data" ELSE "JSON.stringify(data, null, 2)",
            data.length)>>

\* a formatResult that truncates from MAX_CONTENT_LENGTH characters on
formatResultInclusive(data) ==
    LET text == TextOfData(data) IN
    IF Length(text) >= MAX_CONTENT_LENGTH
    THEN Slice(text, MAX_CONTENT_LENGTH) \o Notice
    ELSE text

formatResult(data) ==
    LET text == TextOfData(data) IN
    IF Length(text) > MAX_CONTENT_LENGTH
    THEN Slice(text, MAX_CONTENT_LENGTH) \o Notice
    ELSE text

\* textResult formats the data of a tool result
FormatResult ==
    /\ ret.op = "data"
    /\ ret' = [Result("formatResult", UnknownId, "ok") EXCEPT
                  !.args = ret.args,
                  !.results = formatResult(ret.args[1])]
    /\ UNCHANGED <<sessions, cleanupTimer, intervals, due, opening, teardown, closed, busy, nextId, idLimit, browserOf, attached, leaked, clock>>

\* --------------------------------------------------------- specifications
Init ==
    /\ sessions = <<>>
    /\ cleanupTimer = FALSE
    /\ intervals = 0
    /\ due = FALSE
    /\ opening = EmptyBag
    /\ teardown = <<>>
    /\ closed = {}
    /\ busy = {}
    /\ nextId = 1
    /\ idLimit = MaxIds
    /\ browserOf = <<>>
    /\ attached = 0
    /\ leaked = 0
    /\ clock = 0
    /\ ret = Result("init", UnknownId, "ok")

Next ==
    \/ OpenCall
    \/ \E seen \in 0..MAX_SESSIONS : OpenConnected(seen)
    \/ \E seen \in 0..MAX_SESSIONS : OpenFailed(seen)
    \/ \E id \in AllIds : GetPage(id)
    \/ GetSessionCount
    \/ \E id \in AllIds : GetBrowser(id)
    \/ \E id \in AllIds : ToolCall(id)
    \/ \E id \in AllIds : ToolDone(id)
    \/ \E id \in AllIds : CloseSession(id)
    \/ CloseAllSessions
    \/ \E id \in AllIds, ok \in BOOLEAN : Settle(id, ok)
    \/ \E id \in AllIds : Disconnected(id)
    \/ Tick
    \/ Advance

Spec == Init /\ [][Next]_vars

\* The table already holds n sessions, opened one after the other at time 0.
InitCap ==
    /\ \E n \in 0..MAX_SESSIONS :
          /\ sessions = [x \in 1..n |-> 0]
          /\ cleanupTimer = (n > 0)
          /\ intervals = IF n > 0 THEN 1 ELSE 0
          /\ nextId = n + 1
          /\ idLimit = n + MaxIds
          /\ browserOf = [x \in 1..n |-> x]
    /\ attached = 0
    /\ leaked = 0
    /\ due = FALSE
    /\ opening = EmptyBag
    /\ teardown = <<>>
    /\ closed = {}
    /\ busy = {}
    /\ clock = 0
    /\ ret = Result("init", UnknownId, "ok")

\* openSession against closeSession, within one reaper interval
NextCap ==
    \/ OpenCall
    \/ \E seen \in 0..(MAX_SESSIONS + MaxIds) : OpenConnected(seen)
    \/ \E seen \in 0..(MAX_SESSIONS + MaxIds) : OpenFailed(seen)
    \/ \E id \in AllIds : CloseSession(id)
    \/ \E id \in AllIds, ok \in BOOLEAN : Settle(id, ok)

SpecCap == InitCap /\ [][NextCap]_vars

\* The interval callback runs while the timer is armed, time passes, and
\* every browser.close() settles.
FairSpec ==
    /\ Init /\ [][Next]_vars
    /\ WF_vars(Tick)
    /\ WF_vars(Advance)
    /\ \A id \in AllIds : WF_vars(\E ok \in BOOLEAN : Settle(id, ok))

\* The session manager alone, called directly as the tests of browser.ts do,
\* without the tool handlers of server.ts.
NextCore ==
    \/ OpenCall
    \/ \E seen \in 0..MAX_SESSIONS : OpenConnected(seen)
    \/ \E seen \in 0..MAX_SESSIONS : OpenFailed(seen)
    \/ \E id \in AllIds : GetPage(id)
    \/ GetSessionCount
    \/ \E id \in AllIds : GetBrowser(id)
    \/ \E id \in AllIds : CloseSession(id)
    \/ CloseAllSessions
    \/ \E id \in AllIds, ok \in BOOLEAN : Settle(id, ok)
    \/ \E id \in AllIds : Disconnected(id)
    \/ Tick
    \/ Advance

SpecCore == Init /\ [][NextCore]_vars

\* The tool handlers of server.ts over sessions that are opened and closed,
\* without the reaper, closeAllSessions and disconnects.
NextTools ==
    \/ OpenCall
    \/ \E seen \in 0..MAX_SESSIONS : OpenConnected(seen)
    \/ \E id \in AllIds : ToolCall(id)
    \/ \E id \in AllIds : ToolDone(id)
    \/ \E id \in AllIds : CloseSession(id)
    \/ \E id \in AllIds, ok \in BOOLEAN : Settle(id, ok)
    \/ Advance

SpecTools == Init /\ [][NextTools]_vars

\* The process of index.ts: the manager, signals that start `shutdown`, and
\* nothing more once process.exit has been called.
NextShutdown ==
    /\ ~Exited
    /\ \/ OpenCall
       \/ \E seen \in 0..MAX_SESSIONS : OpenConnected(seen)
       \/ \E id \in AllIds : CloseSession(id)
       \/ \E id \in AllIds, ok \in BOOLEAN : Settle(id, ok)
       \/ Shutdown
       \/ Tick
       \/ Advance

SpecShutdown == Init /\ [][NextShutdown]_vars

\* SpecShutdown in which every browser.close() that was started settles while
\* the process runs
FairShutdown ==
    /\ Init /\ [][NextShutdown]_vars
    /\ \A id \in AllIds : WF_vars(~Exited /\ \E ok \in BOOLEAN : Settle(id, ok))

\* Callers of spider_browser_wait_for on sessions that are opened and closed.
NextWaitFor ==
    \/ OpenCall
    \/ \E seen \in 0..MAX_SESSIONS : OpenConnected(seen)
    \/ \E id \in AllIds, selector \in Selectors, navigation \in Navigations, timeout \in Timeouts :
          WaitFor(id, selector, navigation, timeout)
    \/ \E id \in AllIds : ToolDone(id)
    \/ \E id \in AllIds : CloseSession(id)
    \/ \E id \in AllIds, ok \in BOOLEAN : Settle(id, ok)

SpecWaitFor == Init /\ [][NextWaitFor]_vars

\* parseJsonlStream applied to a response body that arrives in chunks
InitJsonl ==
    /\ sessions = <<>>
    /\ cleanupTimer = FALSE
    /\ intervals = 0
    /\ due = FALSE
    /\ opening = EmptyBag
    /\ teardown = <<>>
    /\ closed = {}
    /\ busy = {}
    /\ nextId = 1
    /\ idLimit = MaxIds
    /\ browserOf = <<>>
    /\ attached = 0
    /\ leaked = 0
    /\ clock = 0
    /\ \E b \in ByteSeqs : \E chunks \in SplitsOf(b) :
          ret = [Result("stream", UnknownId, "ok") EXCEPT !.args = chunks]

NextJsonl == ParseJsonl

SpecJsonl == InitJsonl /\ [][NextJsonl]_vars

\* formatResult applied to the data of a tool result
InitFormat ==
    /\ sessions = <<>>
    /\ cleanupTimer = FALSE
    /\ intervals = 0
    /\ due = FALSE
    /\ opening = EmptyBag
    /\ teardown = <<>>
    /\ closed = {}
    /\ busy = {}
    /\ nextId = 1
    /\ idLimit = MaxIds
    /\ browserOf = <<>>
    /\ attached = 0
    /\ leaked = 0
    /\ clock = 0
    /\ \E data \in Data :
          ret = [Result("data", UnknownId, "ok") EXCEPT !.args = <<data>>]

NextFormat == FormatResult

SpecFormat == InitFormat /\ [][NextFormat]_vars

\* SpecCore with an event loop that runs what is ready: the interval fires,
\* time passes, and every browser.close() settles
FairCore ==
    /\ Init /\ [][NextCore]_vars
    /\ WF_vars(Tick)
    /\ WF_vars(Advance)
    /\ \A id \in AllIds : WF_vars(\E ok \in BOOLEAN : Settle(id, ok))

\* The manager of src/browser.ts (puppeteer-core): openSession awaits
\* browser.pages() between connecting and inserting; there is no getBrowser.
NextPuppeteer ==
    \/ OpenCall
    \/ \E seen \in 0..MAX_SESSIONS : PuppeteerConnected(seen)
    \/ \E seen \in 0..MAX_SESSIONS : OpenFailed(seen)
    \/ PagesResolved
    \/ PagesFailed
    \/ \E id \in AllIds : GetPage(id)
    \/ GetSessionCount
    \/ \E id \in AllIds : CloseSession(id)
    \/ CloseAllSessions
    \/ \E id \in AllIds, ok \in BOOLEAN : Settle(id, ok)
    \/ \E id \in AllIds : Disconnected(id)
    \/ Tick
    \/ Advance

SpecPuppeteer == Init /\ [][NextPuppeteer]_vars

\* The manager of the spider-browser variant: openSession registers no
\* "disconnected" listener.
NextSpider ==
    \/ OpenCall
    \/ \E seen \in 0..MAX_SESSIONS : OpenConnected(seen)
    \/ \E seen \in 0..MAX_SESSIONS : OpenFailed(seen)
    \/ \E id \in AllIds : GetPage(id)
    \/ GetSessionCount
    \/ \E id \in AllIds : GetBrowser(id)
    \/ \E id \in AllIds : ToolCall(id)
    \/ \E id \in AllIds : ToolDone(id)
    \/ \E id \in AllIds : CloseSession(id)
    \/ CloseAllSessions
    \/ \E id \in AllIds, ok \in BOOLEAN : Settle(id, ok)
    \/ \E id \in AllIds : ConnectionLost(id)
    \/ Tick
    \/ Advance

SpecSpider == Init /\ [][NextSpider]_vars

\* ------------------------------------------------------------------ claims
SessionIds == AllIds \ {UnknownId}

\* the interval callback removed `id` from the table in this step
ReapedNow(id) ==
    /\ id \in DOMAIN sessions
    /\ id \in DOMAIN teardown'
    /\ teardown'[id].kind = "reaper"

Idle(id) == id \in DOMAIN sessions /\ clock - sessions[id] > SESSION_TIMEOUT_MS

\* C1: in every reachable state the session table holds at most MAX_SESSIONS
\* (5) entries.
C1_AtMostMaxSessions == Size <= MAX_SESSIONS

\* C2: the capacity check and the insertion of one openSession call are not
\* separated by a suspension point, so no two calls that have passed the check
\* and not yet inserted have passed it against the same table size.
C2_CheckThenInsertAtomic ==
    \A seen \in AllIds : CopiesIn(seen, opening) <= 1

\* C3: an openSession call made while the table holds 5 entries (or more)
\* fails with the "Maximum 5" error before any connection attempt: the table,
\* every lastAccess, the timer and the set of connection attempts in flight
\* are unchanged and no id is drawn.
C3_RejectedAtCapacity ==
    [][(OpenCall /\ Size >= MAX_SESSIONS) =>
          /\ ret'.out = MaxSessionsError
          /\ UNCHANGED <<sessions, cleanupTimer, intervals, due, opening, teardown, closed, nextId>>]_vars

C3_Witness ==
    /\ ret.op = "open"
    /\ ret.out = MaxSessionsError
    /\ Size = MAX_SESSIONS

\* C4: once closeSession(id) has started the teardown of id, every later
\* getPage(id) and getBrowser(id) throws "Browser session not found", also
\* while the teardown is still in flight.
C4_ClosedIdNotFound ==
    [][\A id \in SessionIds :
          ((GetPage(id) \/ GetBrowser(id)) /\ id \in (DOMAIN teardown) \cup closed) =>
              ret'.out = NotFoundError]_vars

C4_Witness ==
    /\ ret.op \in {"getPage", "getBrowser"}
    /\ ret.out = NotFoundError
    /\ ret.id \in DOMAIN teardown
    /\ teardown[ret.id].kind = "close"

\* C5: closeSession on an id that is not in the table returns normally and
\* changes nothing: table, lastAccess, timer, teardowns in flight.
C5_CloseAbsentIsNoOp ==
    [][\A id \in AllIds :
          (CloseSession(id) /\ id \notin DOMAIN sessions) =>
              /\ ret'.out = "ok"
              /\ UNCHANGED <<sessions, cleanupTimer, intervals, due, opening, teardown, closed, busy, nextId>>]_vars

\* the second closeSession(id) has returned while the teardown started by the
\* first is still in flight
C5_Witness ==
    /\ ret.op = "close"
    /\ ret.out = "ok"
    /\ ret.id \in DOMAIN teardown

\* C6: a session that stays in the table without access for more than
\* SESSION_TIMEOUT_MS is eventually removed from the table.
C6_IdleEventuallyReaped == \A id \in SessionIds : Idle(id) ~> ~Idle(id)

\* C7: the interval callback removes a session only if the callback's start
\* time minus the session's lastAccess is strictly greater than
\* SESSION_TIMEOUT_MS; a session accessed within the last SESSION_TIMEOUT_MS
\* is not removed by it.
C7_ReapedOnlyIfIdle ==
    [][\A id \in SessionIds :
          ReapedNow(id) =>
              /\ teardown'[id].now - sessions[id] > SESSION_TIMEOUT_MS
              /\ clock - sessions[id] > SESSION_TIMEOUT_MS]_vars

\* a scan has closed session v after it examined and kept session j, whose
\* lastAccess was exactly SESSION_TIMEOUT_MS old
C7_Witness ==
    \E v \in DOMAIN teardown, j \in DOMAIN sessions :
        /\ teardown[v].kind = "reaper"
        /\ j < v
        /\ teardown[v].now - sessions[j] = SESSION_TIMEOUT_MS

\* C8: a session with a dispatcher operation in flight is never closed by
\* the interval callback.
C8_BusyNeverReaped ==
    \A id \in busy : ~(id \in DOMAIN teardown /\ teardown[id].kind = "reaper")

\* C9: the timer is armed if and only if the table is non-empty.
C9_TimerIffNonEmpty == cleanupTimer <=> (Size > 0)

\* C10: when closeAllSessions resolves, the table is empty.
C10_CloseAllLeavesNone ==
    (ret.op = "closeAll" /\ ret.out = "ok") => Size = 0

\* C11: when the connection of a session in the table is lost out-of-band,
\* the step that delivers the loss removes the session's entry from the table.
C11_DropRemovesEntry ==
    [][\A id \in SessionIds :
          ((Disconnected(id) \/ ConnectionLost(id)) /\ id \in DOMAIN sessions) =>
              id \notin DOMAIN sessions']_vars

\* C12: every connection that is established and whose teardown has not been
\* invoked is held by exactly one table entry: no openSession call holds a
\* connection outside the table, none was abandoned, and no two entries hold
\* the same connection.
C12_EveryConnectionInTable ==
    /\ attached = 0
    /\ leaked = 0
    /\ \A i, j \in DOMAIN sessions : browserOf[i] = browserOf[j] => i = j

\* C13: the session count is 0 before any open; the step of openSession that
\* inserts raises it by exactly 1; closeSession lowers it by exactly 1 when
\* the id is in the table and leaves it unchanged otherwise; getSessionCount
\* returns the number of table entries and changes no state.
C13_CountTracksTable ==
    /\ [](nextId = 1 => Size = 0)
    /\ [][/\ \A seen \in AllIds : OpenConnected(seen) => Size' = Size + 1
          /\ \A id \in AllIds :
                CloseSession(id) =>
                    Size' = IF id \in DOMAIN sessions THEN Size - 1 ELSE Size
          /\ GetSessionCount =>
                /\ ret'.val = Size
                /\ UNCHANGED <<sessions, cleanupTimer, intervals, due, opening, teardown, closed,
                               busy, nextId, browserOf, clock>>]_vars

\* getSessionCount has returned 1 after two opens and one close
C13_Witness ==
    /\ ret.op = "count"
    /\ ret.val = 1
    /\ nextId = 3
    /\ Size = 1
    /\ (DOMAIN teardown) \cup closed # {}

\* C14: openSession is rejected for capacity exactly when the table holds
\* MAX_SESSIONS entries or more at the moment of the call; closing one session
\* of a table of MAX_SESSIONS leaves MAX_SESSIONS - 1, below capacity; an
\* admitted call whose connection is established inserts one entry under a
\* new id.
C14_RejectedIffFull ==
    [][/\ OpenCall => ((ret'.out = MaxSessionsError) <=> (Size >= MAX_SESSIONS))
       /\ \A id \in DOMAIN sessions :
             (CloseSession(id) /\ Size = MAX_SESSIONS) =>
                 /\ Size' = MAX_SESSIONS - 1
                 /\ Size' < MAX_SESSIONS
       /\ \A seen \in AllIds :
             OpenConnected(seen) =>
                 /\ nextId \notin DOMAIN sessions
                 /\ DOMAIN sessions' = (DOMAIN sessions) \cup {nextId}]_vars

\* the table was full, one session was closed, and the open after it was
\* admitted: the table is full again
C14_Witness ==
    /\ ret.op = "open"
    /\ ret.out = "ok"
    /\ ret.id = MAX_SESSIONS + 1
    /\ Size = MAX_SESSIONS
    /\ Cardinality((DOMAIN teardown) \cup closed) = 1
    /\ opening = EmptyBag

\* C15: getPage and getBrowser called with an id that is not in the table
\* (never issued, reaped or closed) throw "Browser session not found" in the
\* step of the call, return no handle and leave the table, every lastAccess,
\* the timer and everything else of the manager unchanged.
C15_AbsentIdThrows ==
    [][\A id \in AllIds :
          ((GetPage(id) \/ GetBrowser(id)) /\ id \notin DOMAIN sessions) =>
              /\ ret'.out = NotFoundError
              /\ ret'.val = 0
              /\ UNCHANGED <<sessions, cleanupTimer, intervals, due, opening, teardown, closed,
                             busy, nextId, browserOf, clock>>]_vars

\* a lookup of an id the reaper has expired has thrown
C15_Witness ==
    /\ ret.op \in {"getPage", "getBrowser"}
    /\ ret.out = NotFoundError
    /\ ret.id \in DOMAIN teardown
    /\ teardown[ret.id].kind = "reaper"

\* C16: a getPage or getBrowser of an id in the table sets that session's
\* lastAccess to the current time, returns the handle stored under that id
\* (no other session's), and changes nothing else: the same ids are in the
\* table, the other sessions keep their lastAccess, the timer is untouched.
C16_LookupRefreshesOnlyItsSession ==
    [][\A id \in SessionIds :
          ((GetPage(id) \/ GetBrowser(id)) /\ id \in DOMAIN sessions) =>
              /\ ret'.out \in {"page", "browser"}
              /\ ret'.val = browserOf[id]
              /\ \A j \in (DOMAIN sessions) \ {id} : ret'.val # browserOf[j]
              /\ DOMAIN sessions' = DOMAIN sessions
              /\ sessions'[id] = clock
              /\ \A j \in (DOMAIN sessions) \ {id} : sessions'[j] = sessions[j]
              /\ UNCHANGED <<cleanupTimer, intervals, due, opening, teardown, closed, busy,
                             nextId, browserOf, clock>>]_vars

\* a lookup has refreshed its session while another session of the table
\* kept an older lastAccess
C16_Witness ==
    /\ ret.op \in {"getPage", "getBrowser"}
    /\ ret.id \in DOMAIN sessions
    /\ ret.val = browserOf[ret.id]
    /\ sessions[ret.id] = clock
    /\ \E j \in (DOMAIN sessions) \ {ret.id} : sessions[j] < clock

\* C17: closeSession on an id in the table removes the entry in the step of
\* the call, and when the teardown it awaits settles, by resolving or by
\* throwing, closeSession returns normally with the entry still absent.
C17_CloseSwallowsTeardownError ==
    [][\A id \in SessionIds :
          /\ (CloseSession(id) /\ id \in DOMAIN sessions) =>
                /\ id \notin DOMAIN sessions'
                /\ ret' = Result("close", id, "pending")
          /\ \A ok \in BOOLEAN :
                (Settle(id, ok) /\ teardown[id].kind = "close") =>
                    /\ ret'.op = "close"
                    /\ ret'.out = "ok"
                    /\ id \notin DOMAIN sessions']_vars

\* closeSession has returned normally from a teardown that threw
C17_Witness ==
    /\ ret.op = "close"
    /\ ret.out = "ok"
    /\ ret.td = "threw"
    /\ ret.id \in closed
    /\ ret.id \notin DOMAIN sessions

\* this step invokes browser.close() on the connection of `id`: closeSession
\* found the entry, called directly, by the interval callback or by
\* closeAllSessions
TeardownInvoked(id) ==
    \/ CloseSession(id) /\ id \in DOMAIN sessions
    \/ /\ id \in DOMAIN sessions
       /\ id \notin DOMAIN sessions'
       /\ id \in DOMAIN teardown'

\* C18: whichever closers race on a session id (closeSession, the interval
\* callback, closeAllSessions), none of them throws, and browser.close() is
\* invoked on a session only if it was never invoked on it before.
C18_TeardownAtMostOnce ==
    /\ [](DOMAIN sessions \cap ((DOMAIN teardown) \cup closed) = {})
    /\ [][/\ \A id \in SessionIds :
                TeardownInvoked(id) => id \notin (DOMAIN teardown) \cup closed
          /\ ((\E id \in AllIds : CloseSession(id) \/ \E ok \in BOOLEAN : Settle(id, ok))
                 \/ CloseAllSessions \/ Tick) =>
                ret'.out \in {"ok", "pending"}]_vars

\* a closeSession has returned while the teardown that the interval callback
\* or closeAllSessions started on the same session is in flight
C18_Witness ==
    /\ ret = Result("close", ret.id, "ok")
    /\ ret.id \in DOMAIN teardown
    /\ teardown[ret.id].kind \in {"reaper", "all"}

\* C19: when the connection attempt of an openSession call fails, the call
\* rejects with that failure; its one attempt is over and no other is
\* started; no entry is inserted, no id is drawn, the session count and the
\* timer are as before.
C19_FailedOpenChangesNothing ==
    [][\A seen \in AllIds :
          OpenFailed(seen) =>
              /\ ret'.op = "open"
              /\ ret'.out \notin {"ok", "pending"}
              /\ BagCardinality(opening') = BagCardinality(opening) - 1
              /\ Size' = Size
              /\ UNCHANGED <<sessions, cleanupTimer, intervals, due, teardown, closed, busy,
                             nextId, browserOf, clock>>]_vars

\* an openSession on an empty table has been rejected by a failed connection
\* attempt: the table is still empty and the timer is not armed
C19_Witness ==
    /\ ret = Throw("open", UnknownId, "ConnectionError")
    /\ Size = 0
    /\ ~cleanupTimer
    /\ nextId = 1
    /\ opening = EmptyBag

\* C20: an id enters the table only in the step that draws it, so an id that
\* was in the table and has been removed is never in the table again; the ids
\* of distinct successful opens differ, and the connection stored under an id
\* is never replaced by another.
C20_IdsNeverReused ==
    /\ [](DOMAIN sessions \subseteq IssuedIds)
    /\ [][/\ nextId' >= nextId
          /\ \A id \in SessionIds :
                (id \notin DOMAIN sessions /\ id \in DOMAIN sessions') =>
                    /\ id \notin IssuedIds
                    /\ id \in 1..(nextId' - 1)
                    /\ ret'.op = "open"
                    /\ ret'.out = "ok"
                    /\ ret'.id = id
          /\ \A id \in DOMAIN browserOf :
                /\ id \in DOMAIN browserOf'
                /\ browserOf'[id] = browserOf[id]]_vars

\* an openSession has returned a new id after an earlier session was closed
C20_Witness ==
    /\ ret.op = "open"
    /\ ret.out = "ok"
    /\ ret.id \in DOMAIN sessions
    /\ \E id \in closed : id < ret.id /\ id \notin DOMAIN sessions

\* C21: in the state in which closeAllSessions resolves the timer is not
\* armed, whether sessions were in the table or not and whether their
\* teardowns resolved or threw.
C21_CloseAllCancelsTimer ==
    (ret.op = "closeAll" /\ ret.out = "ok") => ~cleanupTimer

\* closeAllSessions has resolved after the last of its teardowns threw
C21_Witness ==
    /\ ret.op = "closeAll"
    /\ ret.out = "ok"
    /\ ret.td = "threw"
    /\ closed # {}
    /\ ~cleanupTimer

\* C22: a successful openSession reports the engine it was asked for, and
\* "auto" when it was asked for none.
C22_BrowserTypeResolved ==
    (ret.op = "open" /\ ret.out = "ok") =>
        ret.browserType = IF ret.req = NoOption THEN "auto" ELSE ret.req

\* the errors the manager, the connection and the page operations raise
Failures == {MaxSessionsError, NotFoundError, "ConnectionError", "ProtocolError", "PageError"}

\* C23: whatever fails in a tool handler (admission, lookup, connecting, the
\* page operation) reaches the caller as a result with isError set whose text
\* contains the message of the error; no failure yields a success result.
C23_FailureIsErrorResult ==
    ret.out \in Failures =>
        /\ ret.isError
        /\ \E i \in DOMAIN ret.text : ret.text[i] = ret.out

\* a page operation of a tool handler has failed
C23_Witness ==
    /\ ret.op = "tool"
    /\ ret.out = "PageError"
    /\ ret.isError
    /\ ret.text = <<"Error: ", "PageError">>

\* the interval can still fire: it is due, or the clock can reach its next period
TimerWillFire == due \/ clock < MaxClock * ClockStep

\* C24: a scan that ends on an empty table leaves no timer armed; a successful
\* openSession leaves a timer armed; and an armed timer over an empty table is
\* eventually cancelled unless a session enters the table first.
C24_TimerFollowsTable ==
    /\ []((ret.op = "tick" /\ Size = 0) => ~cleanupTimer)
    /\ []((ret.op = "open" /\ ret.out = "ok") => cleanupTimer)
    /\ (Size = 0 /\ cleanupTimer /\ TimerWillFire) ~> (Size > 0 \/ ~cleanupTimer)

\* a scan has found the table empty, after sessions had been opened, and has
\* cancelled the interval
C24_Witness ==
    /\ ret.op = "tick"
    /\ Size = 0
    /\ nextId > 1
    /\ ~cleanupTimer

\* C25: the "disconnected" listener, run for an id that is not in the table,
\* changes nothing of the manager and raises nothing; run for an id in the
\* table it removes that entry alone: every other entry keeps its lastAccess
\* and its connection, the timer stays as it was and no teardown starts.
C25_DisconnectRemovesOnlyItsEntry ==
    [][\A id \in AllIds : Disconnected(id) =>
          /\ DOMAIN sessions' = DOMAIN sessions \ {id}
          /\ \A j \in DOMAIN sessions' :
                sessions'[j] = sessions[j] /\ browserOf'[j] = browserOf[j]
          /\ cleanupTimer' = cleanupTimer
          /\ due' = due
          /\ teardown' = teardown
          /\ closed' = closed
          /\ ret'.out = "ok"
          /\ ~ret'.isError]_vars

\* the listener has removed the last session and the timer is still armed
C25_Witness ==
    /\ ret.op = "disconnected"
    /\ ret.id \in DOMAIN browserOf
    /\ ret.id \notin closed
    /\ Size = 0
    /\ cleanupTimer

\* the table after a getPage or getBrowser of `id`, and after a closeSession
\* or a reaping of `id`
Looked(t, id) == IF id \in DOMAIN t THEN [t EXCEPT ![id] = clock] ELSE t

Dropped(t, id) == Remove(t, {id})

\* the entries other than `id` are the same before and after the step
OthersKept(id) ==
    \A j \in (DOMAIN sessions) \ {id} :
        /\ j \in DOMAIN sessions'
        /\ sessions'[j] = sessions[j]
        /\ browserOf'[j] = browserOf[j]

\* C26: closeSession, getPage, getBrowser and the reaping of one id leave the
\* entry, the connection and the lastAccess of every other id as they were,
\* and applying two of these operations to two different ids gives the same
\* table in either order.
C26_OperationsOnOneIdOnly ==
    /\ [][\A id \in AllIds :
             /\ CloseSession(id) => sessions' = Dropped(sessions, id) /\ OthersKept(id)
             /\ (GetPage(id) \/ GetBrowser(id)) =>
                   sessions' = Looked(sessions, id) /\ OthersKept(id)
             /\ ReapedNow(id) => sessions' = Dropped(sessions, id) /\ OthersKept(id)]_vars
    /\ [](\A a, b \in AllIds : a # b =>
             /\ Looked(Looked(sessions, a), b) = Looked(Looked(sessions, b), a)
             /\ Dropped(Looked(sessions, a), b) = Looked(Dropped(sessions, b), a)
             /\ Dropped(Dropped(sessions, a), b) = Dropped(Dropped(sessions, b), a))

\* closeSession has removed its entry while a session opened earlier stayed in
\* the table with its older lastAccess
C26_Witness ==
    /\ ret.op = "close"
    /\ ret.out = "pending"
    /\ ret.id \notin DOMAIN sessions
    /\ \E j \in DOMAIN sessions : sessions[j] < clock /\ browserOf[j] = j

\* C27: while an id stays in the table its connection stays the same and its
\* lastAccess changes only in a getPage or getBrowser of that id, and then
\* not downwards; no lastAccess in the table is later than the clock.
C27_EntryChangesOnlyByLookup ==
    /\ [][\A j \in (DOMAIN sessions) \cap (DOMAIN sessions') :
             /\ browserOf'[j] = browserOf[j]
             /\ sessions'[j] >= sessions[j]
             /\ sessions'[j] # sessions[j] => (GetPage(j) \/ GetBrowser(j))]_vars
    /\ [](\A j \in DOMAIN sessions : j \in DOMAIN browserOf /\ sessions[j] <= clock)

\* a session opened at one time was looked up at a later time and then stayed
\* in the table, with the connection it was opened with, while time passed
C27_Witness ==
    \E j \in DOMAIN sessions :
        /\ 0 < sessions[j]
        /\ sessions[j] < clock
        /\ browserOf[j] = j
        /\ ret.op = "getBrowser"
        /\ ret.id # j

\* C28: a tool handler looks its session up in the step in which it is
\* invoked: for an id in the table that step stamps lastAccess with the
\* current time and starts the page operation; for an id not in the table it
\* starts no page operation, changes no lastAccess and returns the error.
C28_LookupIsFirstStep ==
    [][\A id \in AllIds : ToolCall(id) =>
          IF id \in DOMAIN sessions
          THEN /\ id \in DOMAIN sessions'
               /\ sessions'[id] = clock
               /\ busy' = busy \cup {id}
               /\ ret'.out = "pending"
          ELSE /\ busy' = busy
               /\ sessions' = sessions
               /\ ret'.out = NotFoundError
               /\ ret'.isError]_vars

\* a handler was invoked on a session that had been idle and has stamped it
\* before its page operation settled
C28_Witness ==
    /\ ret.op = "tool"
    /\ ret.out = "pending"
    /\ ret.id \in busy
    /\ ret.id \in DOMAIN sessions
    /\ sessions[ret.id] = clock
    /\ clock > 0

\* a `shutdown` is suspended in its closeAllSessions
ShutdownPending == \E id \in DOMAIN teardown : teardown[id].kind = "shutdown"

\* C29: the step that exits the process is the one in which the
\* closeAllSessions of a signal handler resolves: either that handler found no
\* session, or the last teardown of its snapshot has just settled, and the
\* timer is cancelled; and when every teardown settles, a pending shutdown
\* reaches the exit.
C29_ExitAfterCloseAll ==
    /\ [][(~Exited /\ Exited') =>
             /\ ret'.val = 0
             /\ ~cleanupTimer'
             /\ \/ DOMAIN sessions = {} /\ teardown' = teardown
                \/ \E id \in DOMAIN teardown :
                      /\ teardown[id].kind = "shutdown"
                      /\ id \notin DOMAIN teardown'
                      /\ teardown[id].ids \subseteq closed'
                      /\ \A j \in teardown[id].ids : j \notin DOMAIN teardown']_vars
    /\ ShutdownPending ~> Exited

\* the process has exited after the last teardown of the shutdown threw
C29_Witness ==
    /\ Exited
    /\ ret.td = "threw"
    /\ Cardinality(closed) > 1
    /\ ~cleanupTimer

\* C30: the call of closeAllSessions removes and starts tearing down exactly
\* the ids that are in the table at that moment; when its teardowns settle it
\* removes nothing and starts no teardown, so a session inserted in between
\* stays in the table with its connection open.
C30_CloseAllTakesSnapshot ==
    [][/\ CloseAllSessions =>
             /\ DOMAIN sessions' = {}
             /\ DOMAIN teardown' = DOMAIN teardown \cup DOMAIN sessions
             /\ \A i \in DOMAIN sessions :
                   /\ i \notin DOMAIN teardown
                   /\ teardown'[i].kind = "all"
                   /\ teardown'[i].ids = DOMAIN sessions
             /\ \A i \in DOMAIN teardown : teardown'[i] = teardown[i]
       /\ \A id \in DOMAIN teardown :
             (teardown[id].kind = "all" /\ \E ok \in BOOLEAN : Settle(id, ok)) =>
                 /\ sessions' = sessions
                 /\ DOMAIN teardown' = DOMAIN teardown \ {id}
                 /\ closed' = closed \cup {id}]_vars

\* closeAllSessions has resolved with every session of its snapshot torn down,
\* and the session an openSession inserted meanwhile is in the table, neither
\* torn down nor being torn down
C30_Witness ==
    /\ ret.op = "closeAll"
    /\ ret.out = "ok"
    /\ closed # {}
    /\ Size > 0
    /\ \A j \in DOMAIN sessions : j \notin closed /\ j \notin DOMAIN teardown

\* C31: there is never more than one live interval, and it is the one
\* cleanupTimer holds; the end of an interval callback, also of one that was
\* suspended in a teardown while its timer was cancelled and another armed,
\* cancels no timer while the table is not empty.
C31_OneInterval ==
    /\ [](intervals = IF cleanupTimer THEN 1 ELSE 0)
    /\ [][(ret'.op = "tick" /\ Size' > 0) =>
             /\ cleanupTimer' = cleanupTimer
             /\ intervals' = intervals]_vars

\* a callback that was suspended in a teardown has ended over a table that is
\* not empty, and the one interval is still armed
C31_Witness ==
    /\ ret.op = "tick"
    /\ closed # {}
    /\ Size > 0
    /\ cleanupTimer
    /\ intervals = 1

\* C32: a wait_for that was given a selector waits for the selector, else one
\* that was given navigation = true waits for navigation, else it waits for
\* network idle; the timeout it passes is the one it was given, or 30000.
C32_WaitModeByPriority ==
    (ret.op = "wait_for" /\ ret.out = "pending") =>
        /\ ret.mode = IF ret.args[1] # <<>> THEN "selector"
                      ELSE IF ret.args[2] = <<TRUE>> THEN "navigation"
                      ELSE "network_idle"
        /\ ret.ms = IF ret.args[3] = <<>> THEN 30000 ELSE ret.args[3][1]

\* the bytes of all chunks, in order
RECURSIVE Concat(_)
Concat(chunks) == IF chunks = <<>> THEN <<>> ELSE Head(chunks) \o Concat(Tail(chunks))

\* the text of a whole body: an incomplete sequence at its end is U+FFFD
TextOf(bytes) ==
    LET d == Decode(<<>>, bytes) IN
    IF d.pending = <<>> THEN d.text ELSE d.text \o <<"U+FFFD">>

\* the lines of a text: the parts between line feeds
RECURSIVE LinesOf(_)
LinesOf(text) ==
    LET idx == IndexOfNewline(text) IN
    IF idx = 0 THEN <<text>>
    ELSE <<SubSeq(text, 1, idx - 1)>> \o LinesOf(SubSeq(text, idx + 1, Len(text)))

\* the values of the non-empty well-formed lines, a trailing "\r" set aside
RECURSIVE ValuesOf(_)
ValuesOf(lines) ==
    IF lines = <<>> THEN <<>>
    ELSE LET line == ReplaceCR(Head(lines)) IN
         (IF line = <<>> THEN <<>> ELSE JsonParse(line)) \o ValuesOf(Tail(lines))

\* C33: whatever the chunks, parseJsonlStream returns the values of the
\* non-empty well-formed lines of the concatenated bytes, in order, a trailing
\* "\r" of a line ignored and empty and malformed lines skipped.
C33_ChunkingIrrelevant ==
    ret.op = "parseJsonlStream" =>
        ret.results = ValuesOf(LinesOf(TextOf(Concat(ret.args))))

\* C34: formatResult returns a text of at most 200000 characters as it
\* is, and of a longer one its first 200000 characters followed by the
\* notice; what it returns is never longer than 200000 plus the notice.
C34_TruncatedAtLimit ==
    ret.op = "formatResult" =>
        LET text == TextOfData(ret.args[1]) IN
        /\ text[1].to <= 200000 => ret.results = text
        /\ text[1].to > 200000 =>
              ret.results = <<Piece(text[1].of, 200000), Piece("notice", NOTICE_LENGTH)>>
        /\ Length(ret.results) <= 200000 + NOTICE_LENGTH

\* a text one character longer than the limit was cut and the notice appended
C34_Witness ==
    /\ ret.op = "formatResult"
    /\ ret.args[1].length = MAX_CONTENT_LENGTH + 1
    /\ Len(ret.results) = 2
    /\ Length(ret.results) = MAX_CONTENT_LENGTH + NOTICE_LENGTH

====
